---- MODULE Spec2Model ----
(***************************************************************************)
(* Model of src/lsearch.py: the rate limiter FixedPacer, the fetcher _get  *)
(* and the three-stage crawl of run() (listing pages -> tournament pages   *)
(* -> deck pages) under asyncio's cooperative scheduling.                  *)
(*                                                                         *)
(* Every action is one scheduler step of one coroutine: it runs the code   *)
(* from the point where the coroutine is resumed up to the next await that *)
(* really suspends (a held lock, an exhausted semaphore, a sleep, the      *)
(* network read).                                                          *)
(*                                                                         *)
(* Time is kept as ages: FixedPacer.acquire reads the clock only to form   *)
(* now - starts[0], so starts holds now - t for every stored timestamp t,  *)
(* saturated at Second (every age >= 1.0 s is treated alike by the code).  *)
(* Tick lets one clock unit pass.                                          *)
(***************************************************************************)
EXTENDS Integers, Sequences, FiniteSets

\* ---------------------------------------------------------------- bounds
MaxPages == 3
MaxTourneys == 2
MaxDecks == 2
MaxRps == 2
MaxCap == 2
MaxFailOn == 2
MaxLinks == 1
Second == 2
MaxLen == 5
MaxUrl == 3

VARIABLES
    rps,                \* FixedPacer.rps
    concurrency_pages,  \* CONCURRENCY_PAGES (sem_pages, sem_pages2)
    concurrency_decks,  \* CONCURRENCY_DECKS (sem_decks)
    fail_on,            \* FAIL_ON
    starts,             \* FixedPacer.starts, as ages
    lock,               \* FixedPacer.lock: the caller holding it, or NoOne
    waiters,            \* FixedPacer.lock._waiters: the callers queued on it
    total_started,      \* FixedPacer.total_started
    stop_evt,           \* stop_evt.is_set()
    error_count,        \* run.error_count
    matches,            \* run.matches
    tourneys,           \* run.tourneys
    deck_urls,          \* run.deck_urls
    uniq_tourneys,      \* run.uniq_tourneys
    uniq_decks,         \* run.uniq_decks
    stage,              \* the part of run() that has been reached
    run_pc,             \* run(): "running", "returned" or "raised"
    result,             \* the tuple run() returned
    pc,                 \* position of every caller of _get
    url,                \* the URL each stage task was created for
    sleep_left,         \* remaining time of a caller's asyncio.sleep(sleep_for)
    sem,                \* value of the current stage's asyncio.Semaphore
    admitted,           \* history: ages (< Second) of all admissions
    seen_tourneys,      \* history: tournament URLs served by listing pages
    seen_decks,         \* history: deck URLs served by tournament pages
    seen_match,         \* history: deck URLs whose page held the card
    failed_ops,         \* history: number of failed fetches
    abort_stage,        \* history: the stage in which stop_evt was first set
    announced,          \* history: number of [fail-fast] announcements printed
    reads_started       \* history: number of session.get calls opened

vars == <<rps, concurrency_pages, concurrency_decks, fail_on, starts, lock,
          waiters, total_started, stop_evt, error_count, matches, tourneys, deck_urls,
          uniq_tourneys, uniq_decks, stage, run_pc, result, pc, url,
          sleep_left, sem, admitted, seen_tourneys, seen_decks, seen_match,
          failed_ops, abort_stage, announced, reads_started>>

\* ------------------------------------------------------------- universes
MaxTasks == IF MaxPages >= MaxTourneys /\ MaxPages >= MaxDecks THEN MaxPages
            ELSE IF MaxTourneys >= MaxDecks THEN MaxTourneys ELSE MaxDecks
Main == 0                       \* run() itself, calling _get for LIST_URL
Tasks == 1..MaxTasks            \* the coroutines handed to gather
Callers == 0..MaxTasks
NoOne == -1
Tourneys == 1..MaxTourneys      \* standings URLs
Decks == 1..MaxDecks            \* decklist URLs

InGet == {"lock_wait", "jitter", "slot_sleep", "reading"}
Terminal == {"none", "skipped", "ok", "failed", "cancelled"}

Range(s) == {s[i] : i \in 1..Len(s)}
Min(a, b) == IF a <= b THEN a ELSE b
Max(a, b) == IF a >= b THEN a ELSE b

\* Sequences of at most MaxLinks URLs of S without repeats: what
\* _extract_standings and _extract_decks can return (they drop repeats
\* themselves).
LinkSeqs(S) == {s \in UNION {[1..n -> S] : n \in 0..Min(MaxLinks, Cardinality(S))} :
                   \A i, j \in 1..Len(s) : i # j => s[i] # s[j]}

\* ------------------------------------------------------ _dedupe_keep_order
RECURSIVE DedupeFrom(_, _, _)
DedupeFrom(urls, seen, out) ==
    IF urls = <<>> THEN out
    ELSE IF Head(urls) \in seen THEN DedupeFrom(Tail(urls), seen, out)
    ELSE DedupeFrom(Tail(urls), seen \cup {Head(urls)}, Append(out, Head(urls)))

DedupeKeepAll(urls) == urls

Reverse(s) == [i \in 1..Len(s) |-> s[Len(s) + 1 - i]]
DedupeKeepLast(urls) == Reverse(DedupeFrom(Reverse(urls), {}, <<>>))

_dedupe_keep_order(urls) == DedupeFrom(urls, {}, <<>>)

\* ------------------------------------------------------------- FixedPacer
ExpiredEarly(age) == age >= Second - 1

ExpiredNever(age) == FALSE

\* now - self.starts[0] >= 1.0
Expired(age) == age >= Second

RECURSIVE Evict(_)
Evict(s) == IF s # <<>> /\ Expired(s[1]) THEN Evict(Tail(s)) ELSE s

TotalStartedSame(n) == n

\* self.total_started += 1
TotalStartedNext(n) == n + 1

\* The body of "async with self.lock" for caller c, entered with the lock
\* free; jit says whether the drawn jitter j is positive.
LockedSection(c, jit) ==
    LET ev == Evict(starts) IN
    IF Len(ev) < rps
    THEN /\ starts' = Append(ev, 0)
         /\ total_started' = TotalStartedNext(total_started)
         /\ admitted' = Append(admitted, 0)
         /\ sleep_left' = sleep_left
         /\ IF jit
            THEN /\ lock' = c
                 /\ pc' = [pc EXCEPT ![c] = "jitter"]
                 /\ reads_started' = reads_started
            ELSE /\ lock' = NoOne
                 /\ pc' = [pc EXCEPT ![c] = "reading"]
                 /\ reads_started' = reads_started + 1
    ELSE /\ starts' = ev
         /\ lock' = NoOne
         /\ sleep_left' = [sleep_left EXCEPT ![c] = Second - ev[1]]
         /\ pc' = [pc EXCEPT ![c] = "slot_sleep"]
         /\ UNCHANGED <<total_started, admitted, reads_started>>

\* asyncio.Lock.acquire takes the lock at once only if it is unlocked and
\* no waiter is queued; otherwise the caller joins the queue.
LockMustWait == lock # NoOne \/ waiters # <<>>

\* One pass of acquire's "while True" for caller c, up to its suspension.
AcquireStep(c, jit) ==
    IF LockMustWait
    THEN /\ pc' = [pc EXCEPT ![c] = "lock_wait"]
         /\ waiters' = Append(waiters, c)
         /\ UNCHANGED <<starts, lock, total_started, admitted, sleep_left,
                        reads_started>>
    ELSE /\ LockedSection(c, jit)
         /\ waiters' = waiters

pacerVars == <<starts, lock, waiters, total_started, admitted, sleep_left,
               reads_started>>
cfgVars == <<rps, concurrency_pages, concurrency_decks, fail_on>>
listVars == <<matches, tourneys, deck_urls, uniq_tourneys, uniq_decks>>
seenVars == <<seen_tourneys, seen_decks, seen_match>>
runVars == <<stage, run_pc, result, url>>
errVars == <<stop_evt, error_count, failed_ops, abort_stage, announced>>

\* ------------------------------------------------------------------- Init
Init ==
    /\ rps \in 1..MaxRps
    /\ concurrency_pages \in 1..MaxCap
    /\ concurrency_decks \in 1..MaxCap
    /\ fail_on \in 1..MaxFailOn
    /\ starts = <<>>
    /\ lock = NoOne
    /\ waiters = <<>>
    /\ total_started = 0
    /\ stop_evt = FALSE
    /\ error_count = 0
    /\ matches = <<>>
    /\ tourneys = <<>>
    /\ deck_urls = <<>>
    /\ uniq_tourneys = <<>>
    /\ uniq_decks = <<>>
    /\ stage = "first"
    /\ run_pc = "running"
    /\ result = <<>>
    /\ pc = [c \in Callers |-> IF c = Main THEN "start" ELSE "none"]
    /\ url = [c \in Tasks |-> 0]
    /\ sleep_left = [c \in Callers |-> 0]
    /\ sem = 0
    /\ admitted = <<>>
    /\ seen_tourneys = {}
    /\ seen_decks = {}
    /\ seen_match = {}
    /\ failed_ops = 0
    /\ abort_stage = "none"
    /\ announced = 0
    /\ reads_started = 0

\* ------------------------------------------------------------------ clock
\* One unit of time.monotonic() passes.
Tick ==
    /\ starts' = [i \in 1..Len(starts) |-> Min(starts[i] + 1, Second)]
    /\ admitted' = SelectSeq([i \in 1..Len(admitted) |-> admitted[i] + 1],
                             LAMBDA a : a < Second)
    /\ sleep_left' = [c \in Callers |-> Max(sleep_left[c] - 1, 0)]
    /\ UNCHANGED <<lock, waiters, total_started, reads_started, pc, sem>>
    /\ UNCHANGED <<cfgVars, listVars, seenVars, runVars, errVars>>

\* ------------------------------------------- FixedPacer.acquire, resumed
\* The first caller queued on self.lock was woken by release() and takes
\* the lock.
LockGranted(c) ==
    /\ pc[c] = "lock_wait"
    /\ lock = NoOne
    /\ waiters # <<>>
    /\ c = Head(waiters)
    /\ waiters' = Tail(waiters)
    /\ \E jit \in BOOLEAN : LockedSection(c, jit)
    /\ UNCHANGED <<sem, cfgVars, listVars, seenVars, runVars, errVars>>

\* asyncio.sleep(j) is over: leave "async with self.lock", return from
\* acquire, and _get opens session.get(url).
JitterDone(c) ==
    /\ pc[c] = "jitter"
    /\ lock' = NoOne
    /\ pc' = [pc EXCEPT ![c] = "reading"]
    /\ reads_started' = reads_started + 1
    /\ UNCHANGED <<starts, waiters, total_started, admitted, sleep_left>>
    /\ UNCHANGED <<sem, cfgVars, listVars, seenVars, runVars, errVars>>

\* asyncio.sleep(max(0.001, sleep_for)) is over: retry the whole check.
SlotWake(c) ==
    /\ pc[c] = "slot_sleep"
    /\ sleep_left[c] = 0
    /\ \E jit \in BOOLEAN : AcquireStep(c, jit)
    /\ UNCHANGED <<sem, cfgVars, listVars, seenVars, runVars, errVars>>

\* ------------------------------------------------------------------ _get
GetDeclinedNever == FALSE

\* if stop_evt.is_set(): raise asyncio.CancelledError
GetDeclined == stop_evt

\* except Exception in _get: announce and set the signal unless already set
GetFailSets(s) == IF ~s THEN TRUE ELSE s

GetAnnouncesAlways(s) == TRUE

\* if not stop_evt.is_set(): print("[fail-fast] error on ...")
GetAnnounces(s) == ~s

\* ---------------------------------------------- run(): the first listing page
\* first = await _get(session, pacer, LIST_URL, stop_evt)
MainGet ==
    /\ run_pc = "running"
    /\ pc[Main] = "start"
    /\ IF GetDeclined
       THEN /\ pc' = [pc EXCEPT ![Main] = "cancelled"]
            /\ run_pc' = "raised"
            /\ UNCHANGED <<pacerVars, stage, result, url>>
       ELSE /\ \E jit \in BOOLEAN : AcquireStep(Main, jit)
            /\ UNCHANGED <<stage, run_pc, result, url>>
    /\ UNCHANGED <<sem, cfgVars, listVars, seenVars, errVars>>

\* The tasks gather() creates for one stage, one per URL, and its semaphore.
Launch(st, urls, cap) ==
    /\ stage' = st
    /\ pc' = [c \in Callers |-> IF c = Main THEN "ok"
                                ELSE IF c <= Len(urls) THEN "new" ELSE "none"]
    /\ url' = [c \in Tasks |-> IF c <= Len(urls) THEN urls[c] ELSE 0]
    /\ sem' = cap

\* The read of LIST_URL succeeds: _max_page(first), the page list, and the
\* gather over fetch_page.
MainReadOk ==
    /\ run_pc = "running"
    /\ pc[Main] = "reading"
    /\ \E maxp \in 1..MaxPages :
          Launch("listing", [p \in 1..maxp |-> p], concurrency_pages)
    /\ UNCHANGED <<run_pc, result>>
    /\ UNCHANGED <<pacerVars, cfgVars, listVars, seenVars, errVars>>

\* The read of LIST_URL succeeds and _max_page(first) raises (int() refuses
\* a data-max of more than 4300 digits): nothing in run() catches it, and
\* the signal stays as it is.
MainMaxPageRaises ==
    /\ run_pc = "running"
    /\ pc[Main] = "reading"
    /\ pc' = [pc EXCEPT ![Main] = "failed"]
    /\ run_pc' = "raised"
    /\ UNCHANGED <<stage, result, url, sem>>
    /\ UNCHANGED <<pacerVars, cfgVars, listVars, seenVars, errVars>>

\* The read of LIST_URL fails: _get sets the signal and re-raises, and
\* nothing in run() catches it.
MainReadFail ==
    /\ run_pc = "running"
    /\ pc[Main] = "reading"
    /\ stop_evt' = GetFailSets(stop_evt)
    /\ announced' = IF GetAnnounces(stop_evt) THEN announced + 1 ELSE announced
    /\ abort_stage' = IF stop_evt THEN abort_stage ELSE stage
    /\ failed_ops' = failed_ops + 1
    /\ pc' = [pc EXCEPT ![Main] = "failed"]
    /\ run_pc' = "raised"
    /\ UNCHANGED <<error_count, stage, result, url, sem>>
    /\ UNCHANGED <<pacerVars, cfgVars, listVars, seenVars>>

\* --------------------------------- fetch_page, fetch_tourney, check_deck
SemLockedNever == FALSE

\* "async with sem" has to wait: the semaphore has no permit left
SemLocked == sem <= 0

HandlerAssignsOnThreshold(s, ec) == ec = fail_on

\* The task's "except Exception": fetch_page and fetch_tourney set the
\* signal whatever the count; check_deck compares the count with FAIL_ON.
HandlerSets(s, ec) ==
    IF stage = "collecting" THEN (IF ec >= fail_on THEN TRUE ELSE s)
    ELSE TRUE

CaughtByBareExcept(exc) == TRUE

\* "except Exception:" catches the exceptions derived from Exception;
\* asyncio.CancelledError derives from BaseException.
CaughtByExcept(exc) == exc = "Exception"

\* _get raised CancelledError at its entry check: "async with sem" gives the
\* permit back, and the task's handler runs only if it catches the error.
Declined(c) ==
    IF CaughtByExcept("CancelledError")
    THEN /\ error_count' = error_count + 1
         /\ stop_evt' = HandlerSets(stop_evt, error_count')
         /\ pc' = [pc EXCEPT ![c] = "failed"]
         /\ UNCHANGED <<failed_ops, abort_stage, announced>>
    ELSE /\ pc' = [pc EXCEPT ![c] = "cancelled"]
         /\ UNCHANGED errVars

\* "if stop_evt.is_set(): return", then "async with sem", then _get up to
\* its first suspension.
TaskStart(c) ==
    /\ pc[c] = "new"
    /\ IF stop_evt
       THEN /\ pc' = [pc EXCEPT ![c] = "skipped"]
            /\ UNCHANGED <<pacerVars, sem, errVars>>
       ELSE IF SemLocked
       THEN /\ pc' = [pc EXCEPT ![c] = "sem_wait"]
            /\ UNCHANGED <<pacerVars, sem, errVars>>
       ELSE IF GetDeclined
       THEN /\ Declined(c)
            /\ UNCHANGED <<pacerVars, sem>>
       ELSE /\ sem' = sem - 1
            /\ \E jit \in BOOLEAN : AcquireStep(c, jit)
            /\ UNCHANGED errVars
    /\ UNCHANGED <<cfgVars, listVars, seenVars, runVars>>

\* A task queued on the semaphore gets a permit and calls _get. When _get
\* raises CancelledError, "async with" gives the permit back and no
\* "except Exception" catches it: the task ends cancelled.
SemGranted(c) ==
    /\ pc[c] = "sem_wait"
    /\ ~SemLocked
    /\ IF GetDeclined
       THEN /\ Declined(c)
            /\ UNCHANGED <<pacerVars, sem>>
       ELSE /\ sem' = sem - 1
            /\ \E jit \in BOOLEAN : AcquireStep(c, jit)
            /\ UNCHANGED errVars
    /\ UNCHANGED <<cfgVars, listVars, seenVars, runVars>>

\* fetch_page: the read succeeds; tourneys.extend(_extract_standings(html))
FetchPageOk(c) ==
    /\ stage = "listing"
    /\ c \in Tasks
    /\ pc[c] = "reading"
    /\ \E links \in LinkSeqs(Tourneys) :
          /\ tourneys' = tourneys \o links
          /\ seen_tourneys' = seen_tourneys \cup Range(links)
    /\ sem' = sem + 1
    /\ pc' = [pc EXCEPT ![c] = "ok"]
    /\ UNCHANGED <<matches, deck_urls, uniq_tourneys, uniq_decks>>
    /\ UNCHANGED <<seen_decks, seen_match>>
    /\ UNCHANGED <<pacerVars, cfgVars, runVars, errVars>>

\* fetch_tourney: the read succeeds; deck_urls.extend(_extract_decks(html))
FetchTourneyOk(c) ==
    /\ stage = "expanding"
    /\ c \in Tasks
    /\ pc[c] = "reading"
    /\ \E links \in LinkSeqs(Decks) :
          /\ deck_urls' = deck_urls \o links
          /\ seen_decks' = seen_decks \cup Range(links)
    /\ sem' = sem + 1
    /\ pc' = [pc EXCEPT ![c] = "ok"]
    /\ UNCHANGED <<matches, tourneys, uniq_tourneys, uniq_decks>>
    /\ UNCHANGED <<seen_tourneys, seen_match>>
    /\ UNCHANGED <<pacerVars, cfgVars, runVars, errVars>>

RecordAlways(has_card) == TRUE

\* if _deck_has_card(html, needle): matches.append({...})
ShouldRecord(has_card) == has_card

\* check_deck: the read succeeds; has_card is what _deck_has_card finds in
\* the page.
CheckDeckOk(c) ==
    /\ stage = "collecting"
    /\ c \in Tasks
    /\ pc[c] = "reading"
    /\ \E has_card \in BOOLEAN :
          /\ matches' = IF ShouldRecord(has_card)
                        THEN Append(matches, [url |-> url[c]])
                        ELSE matches
          /\ seen_match' = IF has_card THEN seen_match \cup {url[c]}
                           ELSE seen_match
    /\ sem' = sem + 1
    /\ pc' = [pc EXCEPT ![c] = "ok"]
    /\ UNCHANGED <<tourneys, deck_urls, uniq_tourneys, uniq_decks>>
    /\ UNCHANGED <<seen_tourneys, seen_decks>>
    /\ UNCHANGED <<pacerVars, cfgVars, runVars, errVars>>

\* check_deck: the read succeeds, the page holds the card, and building
\* the record raises (int() in _extract_details refuses a number of more
\* than 4300 digits): the task's handler counts it; _get's handler, which
\* announces, is not involved.
CheckDeckExtractRaises(c) ==
    /\ stage = "collecting"
    /\ c \in Tasks
    /\ pc[c] = "reading"
    /\ seen_match' = seen_match \cup {url[c]}
    /\ error_count' = error_count + 1
    /\ stop_evt' = HandlerSets(stop_evt, error_count')
    /\ abort_stage' = IF ~stop_evt /\ stop_evt' THEN stage ELSE abort_stage
    /\ sem' = sem + 1
    /\ pc' = [pc EXCEPT ![c] = "failed"]
    /\ UNCHANGED <<failed_ops, announced, seen_tourneys, seen_decks>>
    /\ UNCHANGED <<pacerVars, cfgVars, listVars, runVars>>

\* The read of a stage task fails: _get's handler, then the task's.
TaskReadFail(c) ==
    /\ c \in Tasks
    /\ pc[c] = "reading"
    /\ error_count' = error_count + 1
    /\ stop_evt' = HandlerSets(GetFailSets(stop_evt), error_count')
    /\ announced' = IF GetAnnounces(stop_evt) THEN announced + 1 ELSE announced
    /\ abort_stage' = IF stop_evt THEN abort_stage ELSE stage
    /\ failed_ops' = failed_ops + 1
    /\ sem' = sem + 1
    /\ pc' = [pc EXCEPT ![c] = "failed"]
    /\ UNCHANGED <<pacerVars, cfgVars, listVars, seenVars, runVars>>

\* ------------------------------------------------------- run(): the joins
AllSettledAlways == TRUE

\* gather() has a result: every task finished and none was cancelled.
AllSettled == \A c \in Tasks : pc[c] \in {"none", "skipped", "ok", "failed"}

ListingNeverAborted == FALSE

\* if stop_evt.is_set(): return 0, 0, matches
ListingAborted == stop_evt

\* The listing gather returns: dedupe, then stop or launch fetch_tourney.
ListingJoin ==
    /\ run_pc = "running"
    /\ stage = "listing"
    /\ AllSettled
    /\ uniq_tourneys' = _dedupe_keep_order(tourneys)
    /\ IF ListingAborted
       THEN /\ run_pc' = "returned"
            /\ result' = <<0, 0, matches>>
            /\ UNCHANGED <<stage, pc, url, sem>>
       ELSE /\ Launch("expanding", uniq_tourneys', concurrency_pages)
            /\ UNCHANGED <<run_pc, result>>
    /\ UNCHANGED <<matches, tourneys, deck_urls, uniq_decks>>
    /\ UNCHANGED <<pacerVars, cfgVars, seenVars, errVars>>

ExpandingAbortNoLeaves(ut, ud, m) == <<Len(ut), 0, m>>

\* return len(uniq_tourneys), len(uniq_decks), matches   (after Expanding)
ExpandingAbortResult(ut, ud, m) == <<Len(ut), Len(ud), m>>

\* The tournament gather returns: dedupe, then stop or launch check_deck.
ExpandingJoin ==
    /\ run_pc = "running"
    /\ stage = "expanding"
    /\ AllSettled
    /\ uniq_decks' = _dedupe_keep_order(deck_urls)
    /\ IF stop_evt
       THEN /\ run_pc' = "returned"
            /\ result' = ExpandingAbortResult(uniq_tourneys, uniq_decks', matches)
            /\ UNCHANGED <<stage, pc, url, sem>>
       ELSE /\ Launch("collecting", uniq_decks', concurrency_decks)
            /\ UNCHANGED <<run_pc, result>>
    /\ UNCHANGED <<matches, tourneys, deck_urls, uniq_tourneys>>
    /\ UNCHANGED <<pacerVars, cfgVars, seenVars, errVars>>

\* The deck gather returns: return len(uniq_tourneys), len(uniq_decks), matches
CollectingJoin ==
    /\ run_pc = "running"
    /\ stage = "collecting"
    /\ AllSettled
    /\ run_pc' = "returned"
    /\ result' = <<Len(uniq_tourneys), Len(uniq_decks), matches>>
    /\ UNCHANGED <<stage, pc, url, sem>>
    /\ UNCHANGED <<pacerVars, cfgVars, listVars, seenVars, errVars>>

\* gather() without return_exceptions: as soon as one task has ended
\* cancelled, "await gather" raises CancelledError in run(), which has no
\* handler for it. The other tasks are left as they are. (The loop runs
\* the first step of every task before it can resume run().)
GatherRaise ==
    /\ run_pc = "running"
    /\ stage # "first"
    /\ \E c \in Tasks : pc[c] = "cancelled"
    /\ \A c \in Tasks : pc[c] # "new"
    /\ run_pc' = "raised"
    /\ UNCHANGED <<stage, result, url, pc, sem>>
    /\ UNCHANGED <<pacerVars, cfgVars, listVars, seenVars, errVars>>

\* asyncio.run(run(...)) in main(): once run() has raised, the tasks that
\* are still pending are cancelled.
CancelAll ==
    /\ run_pc = "raised"
    /\ \E c \in Tasks : pc[c] \notin Terminal
    /\ pc' = [c \in Callers |-> IF pc[c] \in Terminal THEN pc[c] ELSE "cancelled"]
    /\ lock' = NoOne
    /\ waiters' = <<>>
    /\ sem' = sem + Cardinality({c \in Tasks : pc[c] \in InGet})
    /\ UNCHANGED <<starts, total_started, admitted, sleep_left, reads_started>>
    /\ UNCHANGED <<cfgVars, listVars, seenVars, runVars, errVars>>

\* ------------------------------------------------------------------- Next
Next ==
    \/ Tick
    \/ MainGet
    \/ MainReadOk
    \/ MainMaxPageRaises
    \/ MainReadFail
    \/ \E c \in Callers : LockGranted(c)
    \/ \E c \in Callers : JitterDone(c)
    \/ \E c \in Callers : SlotWake(c)
    \/ \E c \in Tasks : TaskStart(c)
    \/ \E c \in Tasks : SemGranted(c)
    \/ \E c \in Tasks : FetchPageOk(c)
    \/ \E c \in Tasks : FetchTourneyOk(c)
    \/ \E c \in Tasks : CheckDeckOk(c)
    \/ \E c \in Tasks : CheckDeckExtractRaises(c)
    \/ \E c \in Tasks : TaskReadFail(c)
    \/ ListingJoin
    \/ ExpandingJoin
    \/ CollectingJoin
    \/ GatherRaise
    \/ CancelAll

Spec == Init /\ [][Next]_vars

\* ------------------------------------- _dedupe_keep_order on its own
\* Every URL list of at most MaxLen entries over MaxUrl URLs.
DedupeInputs == UNION {[1..n -> 1..MaxUrl] : n \in 0..MaxLen}

\* The state in which run() is about to deduplicate the list tourneys.
InitDedupe ==
    /\ rps = 1
    /\ concurrency_pages = 1
    /\ concurrency_decks = 1
    /\ fail_on = 1
    /\ starts = <<>>
    /\ lock = NoOne
    /\ waiters = <<>>
    /\ total_started = 0
    /\ stop_evt = FALSE
    /\ error_count = 0
    /\ matches = <<>>
    /\ tourneys \in DedupeInputs
    /\ deck_urls = <<>>
    /\ uniq_tourneys = <<>>
    /\ uniq_decks = <<>>
    /\ stage = "listing"
    /\ run_pc = "running"
    /\ result = <<>>
    /\ pc = [c \in Callers |-> IF c = Main THEN "start" ELSE "none"]
    /\ url = [c \in Tasks |-> 0]
    /\ sleep_left = [c \in Callers |-> 0]
    /\ sem = 0
    /\ admitted = <<>>
    /\ seen_tourneys = {}
    /\ seen_decks = {}
    /\ seen_match = {}
    /\ failed_ops = 0
    /\ abort_stage = "none"
    /\ announced = 0
    /\ reads_started = 0

\* uniq_tourneys = _dedupe_keep_order(tourneys)
DedupeCall ==
    /\ pc[Main] = "start"
    /\ uniq_tourneys' = _dedupe_keep_order(tourneys)
    /\ pc' = [pc EXCEPT ![Main] = "ok"]
    /\ UNCHANGED <<matches, tourneys, deck_urls, uniq_decks>>
    /\ UNCHANGED <<sem, pacerVars, cfgVars, seenVars, runVars, errVars>>

\* _dedupe_keep_order applied to its own output
DedupeAgain ==
    /\ pc[Main] = "ok"
    /\ run_pc = "running"
    /\ result' = <<_dedupe_keep_order(uniq_tourneys)>>
    /\ run_pc' = "returned"
    /\ UNCHANGED <<stage, url, pc, sem>>
    /\ UNCHANGED <<pacerVars, cfgVars, listVars, seenVars, errVars>>

NextDedupe ==
    \/ DedupeCall
    \/ DedupeAgain

SpecDedupe == InitDedupe /\ [][NextDedupe]_vars

\* ------------------------------------- FixedPacer.acquire on its own
\* Every caller makes one call of acquire() on a fresh pacer of capacity rps;
\* the rest of the state stays as run() builds it.
InitPacer ==
    /\ rps \in 1..MaxRps
    /\ concurrency_pages = 1
    /\ concurrency_decks = 1
    /\ fail_on = 1
    /\ starts = <<>>
    /\ lock = NoOne
    /\ waiters = <<>>
    /\ total_started = 0
    /\ stop_evt = FALSE
    /\ error_count = 0
    /\ matches = <<>>
    /\ tourneys = <<>>
    /\ deck_urls = <<>>
    /\ uniq_tourneys = <<>>
    /\ uniq_decks = <<>>
    /\ stage = "first"
    /\ run_pc = "running"
    /\ result = <<>>
    /\ pc = [c \in Callers |-> "start"]
    /\ url = [c \in Tasks |-> 0]
    /\ sleep_left = [c \in Callers |-> 0]
    /\ sem = 0
    /\ admitted = <<>>
    /\ seen_tourneys = {}
    /\ seen_decks = {}
    /\ seen_match = {}
    /\ failed_ops = 0
    /\ abort_stage = "none"
    /\ announced = 0
    /\ reads_started = 0

\* await pacer.acquire(): the first pass of its loop.
AcquireCall(c) ==
    /\ pc[c] = "start"
    /\ \E jit \in BOOLEAN : AcquireStep(c, jit)
    /\ UNCHANGED <<sem, cfgVars, listVars, seenVars, runVars, errVars>>

NextPacer ==
    \/ Tick
    \/ \E c \in Callers : AcquireCall(c)
    \/ \E c \in Callers : LockGranted(c)
    \/ \E c \in Callers : JitterDone(c)
    \/ \E c \in Callers : SlotWake(c)

\* The clock advances, and the event loop resumes every coroutine whose
\* lock or sleep is ready.
PacerFairness ==
    /\ WF_vars(Tick)
    /\ \A c \in Callers : WF_vars(LockGranted(c))
    /\ \A c \in Callers : WF_vars(JitterDone(c))
    /\ \A c \in Callers : WF_vars(SlotWake(c))

SpecPacerFair == InitPacer /\ [][NextPacer]_vars /\ PacerFairness

TypeOK ==
    /\ rps \in 1..MaxRps
    /\ lock \in Callers \cup {NoOne}
    /\ waiters \in Seq(Callers)
    /\ Len(waiters) = Cardinality({c \in Callers : pc[c] = "lock_wait"})
    /\ \A i \in 1..Len(waiters) : pc[waiters[i]] = "lock_wait"
    /\ stop_evt \in BOOLEAN
    /\ stage \in {"first", "listing", "expanding", "collecting"}
    /\ run_pc \in {"running", "returned", "raised"}
    /\ pc \in [Callers -> {"start", "new", "sem_wait"} \cup InGet \cup Terminal]
    /\ \A i \in 1..Len(starts) : starts[i] \in 0..Second

\* ================================================================ claims
StageCap == IF stage = "collecting" THEN concurrency_decks ELSE concurrency_pages
InFlight == {c \in Tasks : pc[c] \in InGet}
RecordUrls(recs) == {recs[i].url : i \in 1..Len(recs)}
\* Deck URLs whose task read a page holding the card and completed.
MatchedAndCompleted ==
    {u \in seen_match : \E c \in Tasks : url[c] = u /\ pc[c] = "ok"}
\* Deck tasks whose page was read and held the card, and whose record
\* could not be built.
ExtractionFailures ==
    IF stage = "collecting"
    THEN Cardinality({c \in Tasks : pc[c] = "failed" /\ url[c] \in seen_match})
    ELSE 0

\* C1: in every state, the admissions made during the trailing second
\* (age < Second) number at most the capacity rps.
RateBound == Len(admitted) <= rps

\* C1 witness: the window is full and a caller sleeps for a slot.
RateBoundWitness ==
    /\ Len(admitted) = rps
    /\ \E c \in Callers : pc[c] = "slot_sleep"

\* C2 as stated: a network read begins only in a state where the signal is
\* unset.
NoReadAfterStop ==
    [][\A c \in Callers :
          (pc[c] # "reading" /\ pc'[c] = "reading") => ~stop_evt]_vars

\* C2 amended: a caller gets past the entry check of _get (into
\* pacer.acquire or on to the read) only in a state where the signal is
\* unset; a read that begins after the signal is set belongs to a caller
\* that was already inside pacer.acquire.
NoFetchEnteredAfterStop ==
    [][\A c \in Callers :
          (pc[c] \notin InGet /\ pc'[c] \in InGet) => ~stop_evt]_vars

\* C2 witness: the signal is set and a task that waited for a permit was
\* declined by _get while run() is still at the gather.
DeclinedWitness ==
    /\ stop_evt
    /\ run_pc = "running"
    /\ \E c \in Tasks : pc[c] = "cancelled"

\* C3 as stated: run() never ends by raising.
RunNeverRaises == run_pc # "raised"

\* C4 as stated: once run() has left a stage's gather, every task of the
\* stage is terminal.
JoinWaitsForAllTasks ==
    run_pc # "running" => \A c \in Tasks : pc[c] \in Terminal

\* C5: the tasks inside _get never outnumber the stage's concurrency cap.
ConcurrencyCapRespected == Cardinality(InFlight) <= StageCap

\* C5 witness: the cap is reached and a task waits for a permit.
CapReachedWitness ==
    /\ Cardinality(InFlight) = StageCap
    /\ \E c \in Tasks : pc[c] = "sem_wait"

\* C6: when the signal was set before the listing join, run() never gets
\* to Expanding or Collecting, and what it returns is (0, 0, []).
ListingAbortStopsRun ==
    abort_stage \in {"first", "listing"} =>
        /\ stage \in {"first", "listing"}
        /\ run_pc = "returned" => result = <<0, 0, <<>>>>

\* C6 witness: run() returned after a listing abort that had already
\* collected tournament URLs.
ListingAbortWitness ==
    /\ run_pc = "returned"
    /\ abort_stage = "listing"
    /\ tourneys # <<>>

\* C7: when run() returns after an abort in Collecting, the records are
\* exactly those of the deck tasks that read a page holding the card and
\* completed, one each, and the leaf count is the size of the deduplicated
\* deck list.
CollectingAbortResult ==
    (run_pc = "returned" /\ abort_stage = "collecting") =>
        /\ result[2] = Len(uniq_decks)
        /\ result[2] = Cardinality(seen_decks)
        /\ RecordUrls(result[3]) = MatchedAndCompleted
        /\ Len(result[3]) = Cardinality(MatchedAndCompleted)

\* C7 witness: run() returned after a Collecting abort with a record kept.
CollectingAbortWitness ==
    /\ run_pc = "returned"
    /\ abort_stage = "collecting"
    /\ Len(result[3]) >= 1
    /\ Len(result[3]) < result[2]

\* C8 as stated: after an abort in Expanding run() returns 0 leaves.
ExpandingAbortZeroLeaves ==
    (run_pc = "returned" /\ abort_stage = "expanding") =>
        result = <<Len(uniq_tourneys), 0, <<>>>>

\* C8 amended: after an abort in Expanding run() returns the number of
\* distinct tournament URLs, the number of distinct deck URLs collected by
\* the tournament tasks that completed, and no records.
ExpandingAbortPartialLeaves ==
    (run_pc = "returned" /\ abort_stage = "expanding") =>
        result = <<Cardinality(seen_tourneys), Cardinality(seen_decks), <<>>>>

\* C8 witness: run() returned after an Expanding abort with deck URLs
\* already collected.
ExpandingAbortWitness ==
    /\ run_pc = "returned"
    /\ abort_stage = "expanding"
    /\ result[2] > 0

\* C9 as stated: the signal is unset while fewer than fail_on operations
\* (fetches or extractions) have failed.
ThresholdGuardsSignal == failed_ops + ExtractionFailures < fail_on => ~stop_evt

\* C10: a run without a failed fetch or extraction returns the number of
\* distinct tournament URLs served, the number of distinct deck URLs
\* served, and one record for each distinct deck URL whose page held the
\* card.
CleanRunResult ==
    (run_pc = "returned" /\ failed_ops = 0 /\ error_count = 0) =>
        /\ result[1] = Cardinality(seen_tourneys)
        /\ result[2] = Cardinality(seen_decks)
        /\ RecordUrls(result[3]) = seen_match
        /\ Len(result[3]) = Cardinality(seen_match)

\* C10 witness: a clean run that met a repeated tournament URL and kept
\* records for some but not all decks.
CleanRunWitness ==
    /\ run_pc = "returned"
    /\ failed_ops = 0
    /\ error_count = 0
    /\ Len(tourneys) > Len(uniq_tourneys)
    /\ result[3] # <<>>
    /\ Len(result[3]) < result[2]

\* Position in s of the first occurrence of u.
FirstIndex(s, u) ==
    CHOOSE i \in 1..Len(s) : s[i] = u /\ \A j \in 1..(i - 1) : s[j] # u

\* out lists the distinct elements of inp, each once, in the order of
\* their first occurrences in inp.
IsFirstOccurrences(inp, out) ==
    /\ Range(out) = Range(inp)
    /\ \A i, j \in 1..Len(out) :
          i < j => /\ out[i] # out[j]
                   /\ FirstIndex(inp, out[i]) < FirstIndex(inp, out[j])

\* C11: for every input list, _dedupe_keep_order returns the sequence of
\* first occurrences, and applying it again changes nothing.
DedupeKeepsFirstOccurrences ==
    /\ pc[Main] = "ok" => IsFirstOccurrences(tourneys, uniq_tourneys)
    /\ run_pc = "returned" => result[1] = uniq_tourneys

\* C11 witness: the list a, b, a, c, b has been deduplicated to a, b, c,
\* twice.
DedupeWitness ==
    /\ run_pc = "returned"
    /\ tourneys = <<1, 2, 1, 3, 2>>
    /\ uniq_tourneys = <<1, 2, 3>>
    /\ result = <<uniq_tourneys>>

\* C12 as stated: no caller is in its jitter sleep while holding the pacer
\* lock.
JitterSleepReleasesLock == \A c \in Callers : pc[c] = "jitter" => lock # c

\* C13: a task that calls _get while the signal is set (it is given its
\* permit then) ends with CancelledError, and the admission window, the
\* admission count and the number of reads are left as they were.
DeclinedLeavesPacerAlone ==
    [][\A c \in Tasks :
          (stop_evt /\ pc[c] = "sem_wait" /\ pc'[c] # "sem_wait") =>
              /\ pc'[c] = "cancelled"
              /\ starts' = starts
              /\ admitted' = admitted
              /\ total_started' = total_started
              /\ reads_started' = reads_started]_vars

\* C13 witness: a task has been declined while another one is still
\* suspended inside pacer.acquire.
DeclinedBesidePacerWaitWitness ==
    /\ run_pc = "running"
    /\ \E c \in Tasks : pc[c] = "cancelled"
    /\ \E d \in Tasks : pc[d] \in {"lock_wait", "jitter", "slot_sleep"}

\* C14: error_count grows by one exactly in the steps in which a task's own
\* read fails; a task that is skipped at its start check or declined by
\* _get leaves it unchanged.
OnlyOwnFailuresCounted ==
    [][error_count' = error_count +
          (IF \E c \in Tasks : pc[c] = "reading" /\ pc'[c] = "failed"
           THEN 1 ELSE 0)]_vars

\* C14 witness: after one failure, one task was skipped at its start check
\* and another was declined by _get, and the count is still 1.
SkippedAndDeclinedWitness ==
    /\ error_count = 1
    /\ \E c \in Tasks : pc[c] = "skipped"
    /\ \E c \in Tasks : pc[c] = "cancelled"

\* C15: a step prints the fail-fast announcement only if it finds the
\* signal unset, it sets the signal in that same step, and the announcement
\* it prints is the first of the run.
AnnouncedAtMostOnce ==
    [][announced' # announced =>
          /\ ~stop_evt
          /\ stop_evt'
          /\ announced = 0
          /\ announced' = 1]_vars

\* C15 witness: two reads failed and one announcement was printed.
TwoFailuresOneAnnouncementWitness ==
    /\ failed_ops >= 2
    /\ announced = 1

\* C16: run() changes stage only in the order first, listing, expanding,
\* collecting, and it changes stage or reads a stage's list for
\* deduplication only when every task is terminal.
StagesSequential ==
    [][(stage' # stage \/ uniq_tourneys' # uniq_tourneys
                       \/ uniq_decks' # uniq_decks) =>
          /\ \A c \in Tasks : pc[c] \in Terminal
          /\ stage' # stage =>
                <<stage, stage'>> \in {<<"first", "listing">>,
                                       <<"listing", "expanding">>,
                                       <<"expanding", "collecting">>}]_vars

\* C16 witness: a Collecting task reads after two stages of two tasks each.
ThirdStageRunningWitness ==
    /\ stage = "collecting"
    /\ Len(uniq_tourneys) >= 2
    /\ Len(uniq_decks) >= 2
    /\ \E c \in Tasks : pc[c] = "reading"

\* C17: no step clears the cancellation signal.
SignalStaysSet == [][stop_evt => stop_evt']_vars

\* C17 witness: the signal is set and was set again by a second failure.
SetTwiceWitness ==
    /\ stop_evt
    /\ error_count >= 2

\* C18: every record belongs to a URL of the deduplicated deck list whose
\* page held the card, and no URL has two records.
RecordsOnlyForMatches ==
    /\ RecordUrls(matches) \subseteq (seen_match \cap Range(uniq_decks))
    /\ Len(matches) = Cardinality(RecordUrls(matches))

\* C18 witness: one deck page gave a record and another was read and did
\* not hold the card.
MatchAndNoMatchWitness ==
    /\ stage = "collecting"
    /\ matches # <<>>
    /\ \E c \in Tasks : pc[c] = "ok" /\ url[c] \notin seen_match

\* C20: the reads opened so far, plus the callers admitted and still in
\* their jitter sleep, number at most total_started.
ReadsWithinAdmissions ==
    reads_started + Cardinality({c \in Callers : pc[c] = "jitter"})
        <= total_started

\* C20 witness: the first listing page and stage tasks have read, each
\* after one admission.
ReadsAdmittedWitness ==
    /\ stage = "expanding"
    /\ reads_started >= 3
    /\ reads_started = total_started

\* C19: under SpecPacerFair every caller suspended inside acquire(), waiting
\* for the lock, in its jitter sleep or for a window slot, eventually has
\* acquire() return.
AcquireEventuallyReturns ==
    \A c \in Callers :
        (pc[c] \in {"lock_wait", "jitter", "slot_sleep"}) ~> (pc[c] = "reading")

\* C19 witness: with capacity 1 every caller's acquire() has returned, all
\* but the first after waiting for a slot.
AllCallersAdmittedWitness ==
    /\ rps = 1
    /\ total_started = Cardinality(Callers)
    /\ \A c \in Callers : pc[c] = "reading"
====
